---------------------------- MODULE Spec2Model ----------------------------
(***************************************************************************)
(* Model of aws_price_list.py: AWSOffersIndex, AWSOffer, AWSProduct,       *)
(* AWSProductPricing and AWSProductPriceTier.                              *)
(*                                                                         *)
(* JSON scalars are records [k, s, v]: a JSON string is k = "str" with its *)
(* characters in s, a Python float is k = "num" with its value in v.       *)
(* Floats are modelled by integers (all values used are small integers,    *)
(* which binary floating point represents exactly) plus the value INF.     *)
(* Python dicts are modelled in iteration order: a dict that the code only *)
(* iterates with .values() is a sequence of its values.                    *)
(* An optional object (a result that may be absent because the constructor *)
(* raised) is a sequence of length 0 or 1.                                 *)
(***************************************************************************)
EXTENDS Integers, Sequences, FiniteSets, TLC

VARIABLES
    idx,      \* the AWSOffersIndex object: [url, doc, accessed]
    offers,   \* the AWSOffer objects the caller holds, by handle
    fetches,  \* number of urlopen() calls made so far; instants are numbered by
              \* the fetch they follow, so datetime.now() after a fetch reads it
    first,    \* per handle: first result of product(sku, term_type) since the last (re)load
    last,     \* the last client operation and its outcome
    raw,      \* a raw term record (a dict of the JSON document)
    pt,       \* the AWSProductPricing built from raw, if any
    res       \* the last operation on raw / pt and its outcome

vars == <<idx, offers, fetches, first, last, raw, pt, res>>
clientVars == <<idx, offers, fetches, first, last>>
termVars == <<raw, pt, res>>

----------------------------------------------------------------------------
(* Bounds *)

MaxTiers == 2     \* price dimensions per raw term
MaxOffers == 2    \* AWSOffer objects held by the caller
MaxFetches == 4   \* urlopen() calls in one behaviour

----------------------------------------------------------------------------
(* Scalars: strings, floats, float() and the date parser *)

INF == 1000000

Str(s) == [k |-> "str", s |-> s, v |-> 0]
Num(n) == [k |-> "num", s |-> <<>>, v |-> n]

Digit == [c \in {"0", "1", "2", "3", "4", "5", "6", "7", "8", "9"} |->
            CASE c = "0" -> 0 [] c = "1" -> 1 [] c = "2" -> 2 [] c = "3" -> 3
              [] c = "4" -> 4 [] c = "5" -> 5 [] c = "6" -> 6 [] c = "7" -> 7
              [] c = "8" -> 8 [] c = "9" -> 9]

IsDigits(s) == Len(s) > 0 /\ \A i \in 1..Len(s) : s[i] \in DOMAIN Digit

RECURSIVE DigitsVal(_)
DigitsVal(s) ==
    IF s = <<>> THEN 0
    ELSE 10 * DigitsVal(SubSeq(s, 1, Len(s) - 1)) + Digit[s[Len(s)]]

\* float() as a parser that accepts strings only
FloatStrOnly(x) ==
    IF x.k = "num" THEN [err |-> "FloatError", v |-> 0]
    ELSE IF x.s = <<"I", "n", "f">> THEN [err |-> "ok", v |-> INF]
    ELSE IF IsDigits(x.s) THEN [err |-> "ok", v |-> DigitsVal(x.s)]
    ELSE [err |-> "FloatError", v |-> 0]

\* float(x): a float is returned as it is, a decimal string is parsed,
\* "Inf" is infinity, anything else raises ValueError.
Float(x) ==
    IF x.k = "num" THEN [err |-> "ok", v |-> x.v]
    ELSE IF x.s = <<"I", "n", "f">> THEN [err |-> "ok", v |-> INF]
    ELSE IF IsDigits(x.s) THEN [err |-> "ok", v |-> DigitsVal(x.s)]
    ELSE [err |-> "FloatError", v |-> 0]

\* float arithmetic on the modelled values (x - y and p * x)
FSub(x, y) == IF x = INF THEN INF ELSE x - y
FMul(p, x) == IF x = INF THEN INF ELSE p * x

\* The date parser used for publicationDate and effectiveDate:
\*   if s.endswith('Z'): strptime(s.replace('Z', '+0000'), '%Y-%m-%dT%H:%M:%S%z')
\*   else: raise ValueError('Unsupported format')
\* The date-time body is abbreviated to a digit string naming the instant;
\* strptime fails on a body that is not one (a second 'Z' inside included).
ParseDate(s) ==
    IF Len(s) > 0 /\ s[Len(s)] = "Z"
    THEN LET body == SubSeq(s, 1, Len(s) - 1) IN
         IF IsDigits(body) THEN [err |-> "ok", v |-> DigitsVal(body)]
         ELSE [err |-> "DateParse", v |-> 0]
    ELSE [err |-> "DateUnsupported", v |-> 0]

----------------------------------------------------------------------------
(* AWSProductPriceTier *)

\* the constructor with the ranges parsed before the USD price is looked up
PriceTierInitRangesFirst(arg) ==
    IF ~arg.isdict THEN [err |-> "TypeError", info |-> arg]
    ELSE
      LET b == Float(arg.beginRange) IN
      IF b.err # "ok" THEN [err |-> b.err, info |-> arg]
      ELSE
        LET a1 == [arg EXCEPT !.beginRange = Num(b.v)]
            e == Float(a1.endRange)
        IN
        IF e.err # "ok" THEN [err |-> e.err, info |-> a1]
        ELSE
          LET a2 == [a1 EXCEPT !.endRange = Num(e.v)] IN
          IF "USD" \notin DOMAIN a2.pricePerUnit
          THEN [err |-> "NoUSD", info |-> a2]
          ELSE
            LET p == Float(a2.pricePerUnit["USD"]) IN
            IF p.err # "ok" THEN [err |-> p.err, info |-> a2]
            ELSE [err |-> "ok",
                  info |-> [a2 EXCEPT !.pricePerUnit["USD"] = Num(p.v)]]

\* AWSProductPriceTier.__init__(arg): arg is kept by reference and normalised
\* in place; info is arg as the constructor leaves it, also when it raises.
PriceTierInit(arg) ==
    IF ~arg.isdict THEN [err |-> "TypeError", info |-> arg]
    ELSE IF "USD" \notin DOMAIN arg.pricePerUnit
    THEN [err |-> "NoUSD", info |-> arg]
    ELSE
      LET p == Float(arg.pricePerUnit["USD"]) IN
      IF p.err # "ok" THEN [err |-> p.err, info |-> arg]
      ELSE
        LET a1 == [arg EXCEPT !.pricePerUnit["USD"] = Num(p.v)]
            b == Float(a1.beginRange)
        IN
        IF b.err # "ok" THEN [err |-> b.err, info |-> a1]
        ELSE
          LET a2 == [a1 EXCEPT !.beginRange = Num(b.v)]
              e == Float(a2.endRange)
          IN
          IF e.err # "ok" THEN [err |-> e.err, info |-> a2]
          ELSE [err |-> "ok", info |-> [a2 EXCEPT !.endRange = Num(e.v)]]

\* the properties of a tier, read from the dict it refers to
price(info) == info.pricePerUnit["USD"].v
begin_range(info) == info.beginRange.v
end_range(info) == info.endRange.v
unit(info) == info.unit

----------------------------------------------------------------------------
(* AWSProductPricing *)

\* for v in term['priceDimensions'].values(): tiers.append(AWSProductPriceTier(v))
\* from entry i on; stops at the first constructor that raises.
RECURSIVE BuildTiers(_, _)
BuildTiers(pd, i) ==
    IF i > Len(pd) THEN [err |-> "ok", pd |-> pd]
    ELSE LET Built(r) ==
                 IF r.err # "ok"
                 THEN [err |-> r.err, pd |-> [pd EXCEPT ![i] = r.info]]
                 ELSE BuildTiers([pd EXCEPT ![i] = r.info], i + 1)
         IN Built(PriceTierInit(pd[i]))

\* insert tier t into the sorted list ts, after every tier whose key is <= its own
RECURSIVE InsertTier(_, _, _)
InsertTier(ts, t, pd) ==
    IF ts = <<>> THEN <<t>>
    ELSE IF begin_range(pd[ts[Len(ts)]]) <= begin_range(pd[t])
    THEN Append(ts, t)
    ELSE Append(InsertTier(SubSeq(ts, 1, Len(ts) - 1), t, pd), ts[Len(ts)])

\* the same sort keyed on end_range
RECURSIVE InsertTierByEnd(_, _, _)
InsertTierByEnd(ts, t, pd) ==
    IF ts = <<>> THEN <<t>>
    ELSE IF end_range(pd[ts[Len(ts)]]) <= end_range(pd[t])
    THEN Append(ts, t)
    ELSE Append(InsertTierByEnd(SubSeq(ts, 1, Len(ts) - 1), t, pd), ts[Len(ts)])

RECURSIVE SortTiersByEnd(_, _)
SortTiersByEnd(ts, pd) ==
    IF ts = <<>> THEN <<>>
    ELSE InsertTierByEnd(SortTiersByEnd(SubSeq(ts, 1, Len(ts) - 1), pd),
                         ts[Len(ts)], pd)

\* tiers.sort(key=lambda t: t.begin_range): a stable ascending sort.
\* A tier is the index of the dict it refers to in priceDimensions.
RECURSIVE SortTiers(_, _)
SortTiers(ts, pd) ==
    IF ts = <<>> THEN <<>>
    ELSE InsertTier(SortTiers(SubSeq(ts, 1, Len(ts) - 1), pd), ts[Len(ts)], pd)

\* AWSProductPricing.__init__(term): term is the term as the constructor
\* leaves it (its price dimensions normalised in place), obj the object built.
PricingTermInit(term) ==
    IF ~term.isdict THEN [err |-> "TypeError", term |-> term, obj |-> <<>>]
    ELSE
      LET d == ParseDate(term.effectiveDate)
          Built(b) ==
            IF b.err # "ok"
            THEN [err |-> b.err, term |-> [term EXCEPT !.priceDimensions = b.pd],
                  obj |-> <<>>]
            ELSE [err |-> "ok", term |-> [term EXCEPT !.priceDimensions = b.pd],
                  obj |-> <<[code |-> term.offerTermCode,
                             product_sku |-> term.sku,
                             from_date |-> d.v,
                             tiers |-> SortTiers([i \in 1..Len(b.pd) |-> i], b.pd)]>>]
      IN
      IF d.err # "ok" THEN [err |-> d.err, term |-> term, obj |-> <<>>]
      ELSE Built(BuildTiers(term.priceDimensions, 1))

\* get_price without the break
RECURSIVE GetPriceNoBreak(_, _, _, _, _)
GetPriceNoBreak(ts, pd, amount, i, acc) ==
    IF i > Len(ts) THEN acc
    ELSE LET t == pd[ts[i]] IN
         IF amount > end_range(t)
         THEN GetPriceNoBreak(ts, pd, amount, i + 1,
                   acc + FMul(price(t), FSub(end_range(t), begin_range(t))))
         ELSE GetPriceNoBreak(ts, pd, amount, i + 1,
                   acc + FMul(price(t), FSub(amount, begin_range(t))))

\* the loop of AWSProductPricing.get_price from tier i on, acc the price so far
RECURSIVE GetPriceLoop(_, _, _, _, _)
GetPriceLoop(ts, pd, amount, i, acc) ==
    IF i > Len(ts) THEN acc
    ELSE LET t == pd[ts[i]] IN
         IF amount > end_range(t)
         THEN GetPriceLoop(ts, pd, amount, i + 1,
                   acc + FMul(price(t), FSub(end_range(t), begin_range(t))))
         ELSE acc + FMul(price(t), FSub(amount, begin_range(t)))

\* AWSProductPricing.get_price(amount)
get_price(ts, pd, amount) == GetPriceLoop(ts, pd, amount, 1, 0)

\* price_unit with the units collected in a list instead of a set
PriceUnitList(ts, pd) ==
    IF Len(ts) # 1 THEN [err |-> "MoreThanOneUnit", unit |-> ""]
    ELSE [err |-> "ok", unit |-> unit(pd[ts[1]])]

\* AWSProductPricing.price_unit
price_unit(ts, pd) ==
    LET units == {unit(pd[ts[i]]) : i \in 1..Len(ts)} IN
    IF Cardinality(units) # 1 THEN [err |-> "MoreThanOneUnit", unit |-> ""]
    ELSE [err |-> "ok", unit |-> CHOOSE u \in units : TRUE]

----------------------------------------------------------------------------
(* Raw records the term-level operations are applied to *)

Units == {"GB-Mo", "Hrs"}
Amounts == {0, 5, 10, 15}

RawTier(u, ppu, b, e) ==
    [isdict |-> TRUE, unit |-> u, pricePerUnit |-> ppu,
     beginRange |-> Str(b), endRange |-> Str(e)]

\* a price dimension that is a JSON string instead of an object
NotADict ==
    [isdict |-> FALSE, unit |-> "", pricePerUnit |-> <<>>,
     beginRange |-> Str(<<>>), endRange |-> Str(<<>>)]

ValidTiers ==
    {RawTier(u, "USD" :> Str(p), b, e) :
        u \in Units, p \in {<<"1">>, <<"2">>},
        b \in {<<"0">>, <<"1", "0">>}, e \in {<<"1", "0">>, <<"I", "n", "f">>}}

NoUSDTiers ==
    {RawTier("Hrs", ppu, b, e) :
        ppu \in {<<>>, "EUR" :> Str(<<"1">>)},
        b \in {<<"0">>, <<"x">>}, e \in {<<"1", "0">>, <<"x">>}}

BadRangeTiers ==
    {RawTier("Hrs", "USD" :> Str(<<"1">>), <<"x">>, <<"1", "0">>),
     RawTier("Hrs", "USD" :> Str(<<"1">>), <<"0">>, <<"x">>),
     RawTier("Hrs", "USD" :> Str(<<"x">>), <<"0">>, <<"1", "0">>)}

RawTiers == ValidTiers \cup NoUSDTiers \cup BadRangeTiers \cup {NotADict}

RawTermOf(date, pd) ==
    [isdict |-> TRUE, offerTermCode |-> "JRTCKXETXF", sku |-> "A",
     effectiveDate |-> date, priceDimensions |-> pd]

TierLists == UNION {[1..n -> RawTiers] : n \in 0..MaxTiers}

RawTerms ==
    {RawTermOf(<<"1", "Z">>, pd) : pd \in TierLists}
    \cup {RawTermOf(d, <<CHOOSE t \in ValidTiers : TRUE>>) :
            d \in {<<"1", "+">>, <<"Z", "Z">>}}
    \cup {[RawTermOf(<<>>, <<>>) EXCEPT !.isdict = FALSE]}

----------------------------------------------------------------------------
(* Term-level operations *)

Res(op, arg, err, val, u, obj) ==
    [op |-> op, arg |-> arg, err |-> err, val |-> val, unit |-> u, obj |-> obj]

NoRes == Res("none", 0, "ok", 0, "", <<>>)

\* AWSProductPricing(raw)
NewPricing ==
    LET Returned(r) ==
          /\ raw' = r.term
          /\ pt' = IF r.err = "ok" THEN r.obj ELSE pt
          /\ res' = Res("pricing", 0, r.err, 0, "", <<>>)
    IN
    /\ Returned(PricingTermInit(raw))
    /\ UNCHANGED clientVars

\* AWSProductPriceTier(raw['priceDimensions'][i])
NewTier ==
    \E i \in 1..Len(raw.priceDimensions) :
      LET Returned(r) ==
            /\ raw' = [raw EXCEPT !.priceDimensions[i] = r.info]
            /\ res' = Res("tier", i, r.err, 0, "",
                          IF r.err = "ok" THEN <<r.info>> ELSE <<>>)
      IN
      /\ raw.isdict
      /\ Returned(PriceTierInit(raw.priceDimensions[i]))
      /\ pt' = pt
      /\ UNCHANGED clientVars

\* pt.get_price(amount)
GetPrice ==
    \E amount \in Amounts :
      /\ pt # <<>>
      /\ res' = Res("get_price", amount, "ok",
                    get_price(pt[1].tiers, raw.priceDimensions, amount), "", <<>>)
      /\ UNCHANGED <<raw, pt>>
      /\ UNCHANGED clientVars

\* pt.price_unit
PriceUnit ==
    /\ pt # <<>>
    /\ LET r == price_unit(pt[1].tiers, raw.priceDimensions) IN
       res' = Res("price_unit", 0, r.err, 0, r.unit, <<>>)
    /\ UNCHANGED <<raw, pt>>
    /\ UNCHANGED clientVars

TermInit ==
    /\ raw \in RawTerms
    /\ pt = <<>>
    /\ res = NoRes

TermNext == NewPricing \/ NewTier \/ GetPrice \/ PriceUnit

----------------------------------------------------------------------------
(* AWSProduct *)

\* the value of a constructed AWSProductPricing: its tiers read through
\* their properties, in list order
PricingValue(obj, pd) ==
    [code |-> obj.code, product_sku |-> obj.product_sku,
     from_date |-> obj.from_date,
     tiers |-> [i \in 1..Len(obj.tiers) |->
                  [price |-> price(pd[obj.tiers[i]]),
                   begin_range |-> begin_range(pd[obj.tiers[i]]),
                   end_range |-> end_range(pd[obj.tiers[i]]),
                   unit |-> unit(pd[obj.tiers[i]])]]]

\* for v in sku_terms.values(): self._pricing.append(AWSProductPricing(v))
\* from term i on, acc the pricing list so far
RECURSIVE BuildPricing(_, _, _)
BuildPricing(ts, i, acc) ==
    IF i > Len(ts) THEN [err |-> "ok", terms |-> ts, pricing |-> acc]
    ELSE LET Built(r) ==
                 IF r.err # "ok"
                 THEN [err |-> r.err, terms |-> [ts EXCEPT ![i] = r.term],
                       pricing |-> <<>>]
                 ELSE BuildPricing([ts EXCEPT ![i] = r.term], i + 1,
                          Append(acc, PricingValue(r.obj[1], r.term.priceDimensions)))
         IN Built(PricingTermInit(ts[i]))

\* AWSProduct.__init__(sku_info, sku_terms, term_type): terms is sku_terms
\* as the constructor leaves it.
AWSProductInit(sku_info, sku_terms, term_type) ==
    IF ~(sku_info.isdict /\ sku_terms.isdict)
    THEN [err |-> "TypeError", terms |-> sku_terms, obj |-> <<>>]
    ELSE LET Built(b) ==
                 IF b.err # "ok"
                 THEN [err |-> b.err, terms |-> [sku_terms EXCEPT !.values = b.terms],
                       obj |-> <<>>]
                 ELSE [err |-> "ok",
                       terms |-> [sku_terms EXCEPT !.values = b.terms],
                       obj |-> <<[sku |-> sku_info.sku, term_type |-> term_type,
                                  pricing |-> b.pricing]>>]
         IN Built(BuildPricing(sku_terms.values, 1, <<>>))

----------------------------------------------------------------------------
(* AWSOffer *)

\* AWSOffer.product with the arguments of AWSProduct looked up before the
\* sanity check
OfferProductLookupFirst(offr, sku, term_type) ==
    IF sku \notin DOMAIN offr.products
    THEN [err |-> "KeyError", offr |-> offr, obj |-> <<>>]
    ELSE IF term_type \notin DOMAIN offr.terms
    THEN [err |-> "KeyError", offr |-> offr, obj |-> <<>>]
    ELSE IF sku \notin DOMAIN offr.terms[term_type]
    THEN [err |-> "KeyError", offr |-> offr, obj |-> <<>>]
    ELSE IF sku # offr.products[sku].sku
    THEN [err |-> "SKUMismatch", offr |-> offr, obj |-> <<>>]
    ELSE LET Built(r) ==
                 [err |-> r.err,
                  offr |-> [offr EXCEPT !.terms[term_type][sku] = r.terms],
                  obj |-> r.obj]
         IN Built(AWSProductInit(offr.products[sku],
                                 offr.terms[term_type][sku], term_type))

\* AWSOffer.product(sku, term_type): offr is self._offr as the call leaves it
OfferProduct(offr, sku, term_type) ==
    IF sku \notin DOMAIN offr.products
    THEN [err |-> "KeyError", offr |-> offr, obj |-> <<>>]
    ELSE IF sku # offr.products[sku].sku
    THEN [err |-> "SKUMismatch", offr |-> offr, obj |-> <<>>]
    ELSE IF term_type \notin DOMAIN offr.terms
    THEN [err |-> "KeyError", offr |-> offr, obj |-> <<>>]
    ELSE IF sku \notin DOMAIN offr.terms[term_type]
    THEN [err |-> "KeyError", offr |-> offr, obj |-> <<>>]
    ELSE LET Built(r) ==
                 [err |-> r.err,
                  offr |-> [offr EXCEPT !.terms[term_type][sku] = r.terms],
                  obj |-> r.obj]
         IN Built(AWSProductInit(offr.products[sku],
                                 offr.terms[term_type][sku], term_type))

\* AWSOffer.reload() on one object. f is what urlopen and json.loads give:
\* outcome "ok" with the parsed body, or the exception raised; t is the
\* clock reading after the fetch.
OfferReloadObj(self, f, t) ==
    IF f.outcome # "ok" THEN self
    ELSE [self EXCEPT !.offr = f.body[1], !.accessed = t]

\* reload() with the document and the timestamp kept on the class, shared
\* by all AWSOffer objects
OfferReloadShared(objs, h, f, t) ==
    [g \in DOMAIN objs |->
        IF objs[g] = <<>> THEN <<>> ELSE <<OfferReloadObj(objs[g][1], f, t)>>]

\* AWSOffer.reload() on the object with handle h among the objects objs
OfferReload(objs, h, f, t) ==
    [objs EXCEPT ![h] = <<OfferReloadObj(objs[h][1], f, t)>>]

\* AWSOffer.__init__(url)
OfferInit(url, f, t) ==
    IF f.outcome # "ok" THEN [err |-> f.outcome, obj |-> <<>>]
    ELSE LET o == OfferReloadObj([url |-> url, offr |-> <<>>, accessed |-> 0,
                                  pubdate |-> 0], f, t)
             d == ParseDate(o.offr.publicationDate)
         IN IF d.err # "ok" THEN [err |-> d.err, obj |-> <<>>]
            ELSE [err |-> "ok", obj |-> <<[o EXCEPT !.pubdate = d.v]>>]

----------------------------------------------------------------------------
(* AWSOffersIndex *)

\* urljoin(base, ref): an absolute reference <<host, path>> replaces the
\* base, a path reference <<path>> is resolved against the base's host
urljoin(base, ref) == IF Len(ref) = 2 THEN ref ELSE <<base[1], ref[1]>>

\* reload() with the timestamp taken before the fetch
IndexReloadStampFirst(self, f, t) ==
    IF f.outcome # "ok" THEN [self EXCEPT !.accessed = t]
    ELSE [self EXCEPT !.doc = f.body[1], !.accessed = t]

\* AWSOffersIndex.reload(): f is what urlopen and json.loads give, t the
\* clock reading after the fetch. An exception of urlopen, read, decode or
\* json.loads leaves both attributes unassigned; closing the response and
\* reading the clock do not raise.
IndexReload(self, f, t) ==
    IF f.outcome # "ok" THEN self
    ELSE [self EXCEPT !.doc = f.body[1], !.accessed = t]

\* the lookup of offer() with dict.get and a default in place of the
\* KeyError handler
OfferUrlDefault(self, offer_code) ==
    IF offer_code \in DOMAIN self.doc.offers
       /\ "currentVersionUrl" \in DOMAIN self.doc.offers[offer_code]
    THEN [err |-> "ok",
          url |-> urljoin(self.url,
                          self.doc.offers[offer_code]["currentVersionUrl"])]
    ELSE [err |-> "ok", url |-> self.url]

\* AWSOffersIndex.offer(offer_code) up to the call of AWSOffer: the URL of
\* the offer, or the error raised
OfferUrl(self, offer_code) ==
    IF offer_code \in DOMAIN self.doc.offers
       /\ "currentVersionUrl" \in DOMAIN self.doc.offers[offer_code]
    THEN [err |-> "ok",
          url |-> urljoin(self.url,
                          self.doc.offers[offer_code]["currentVersionUrl"])]
    ELSE [err |-> "UnknownOfferCode", url |-> <<>>]

----------------------------------------------------------------------------
(* Documents the server may return *)

IdxUrl == <<"pricing.us-east-1.amazonaws.com", "/offers/v1.0/aws/index.json">>

Codes == {"AmazonEC2", "AmazonS3", "AmazonRDS"}
ProductArgs ==
    {<<"A", "OnDemand">>, <<"A", "Reserved">>, <<"B", "OnDemand">>,
     <<"B", "Reserved">>, <<"C", "OnDemand">>}

IndexDoc1 ==
    [publicationDate |-> <<"1", "Z">>,
     offers |-> ("AmazonEC2" :> ("currentVersionUrl" :> <<"/ec2/current/index.json">>))]

\* AmazonEC2 has moved to another host and the AmazonRDS entry has no
\* currentVersionUrl
IndexDoc2 ==
    [publicationDate |-> <<"2", "Z">>,
     offers |-> ("AmazonEC2" :> ("currentVersionUrl" :>
                     <<"pricing.eu-west-1.amazonaws.com", "/ec2/current/index.json">>))
             @@ ("AmazonRDS" :> <<>>)]

IndexDocs == {IndexDoc1, IndexDoc2}

TierA == RawTier("Hrs", "USD" :> Str(<<"2">>), <<"0">>, <<"1", "0">>)
TierB == RawTier("Hrs", "USD" :> Str(<<"1">>), <<"1", "0">>, <<"I", "n", "f">>)
TierNoUSD == RawTier("Hrs", "EUR" :> Str(<<"1">>), <<"1", "0">>, <<"I", "n", "f">>)

\* the terms of SKU "A": two terms, the first with its price dimensions
\* out of order; one term with a dimension that has no USD price
TermsGood ==
    <<RawTermOf(<<"1", "Z">>, <<TierB, TierA>>),
      [RawTermOf(<<"2", "Z">>, <<TierA>>) EXCEPT !.offerTermCode = "4NA7Y494T4"]>>
TermsNoUSD == <<RawTermOf(<<"1", "Z">>, <<TierA, TierNoUSD>>)>>

\* an offer document; the product stored under "B" embeds another SKU
OfferDoc(date, termsA) ==
    [publicationDate |-> date,
     products |-> ("A" :> [isdict |-> TRUE, sku |-> "A"])
               @@ ("B" :> [isdict |-> TRUE, sku |-> "X"]),
     terms |-> ("OnDemand" :> ("A" :> [isdict |-> TRUE, values |-> termsA]))]

OfferDocs ==
    {OfferDoc(<<"1", "Z">>, TermsGood),
     OfferDoc(<<"2", "Z">>, TermsNoUSD),
     OfferDoc(<<"1", "+">>, TermsGood)}

\* what urlopen(url) and json.loads give for a set of documents
Fetched(docs) ==
    {[outcome |-> "ok", body |-> <<d>>] : d \in docs}
    \cup {[outcome |-> "URLError", body |-> <<>>],
          [outcome |-> "JSONDecodeError", body |-> <<>>]}

----------------------------------------------------------------------------
(* Client operations *)

Handles == 1..MaxOffers

Last(op, h, code, sku, tt, err, body, url, obj) ==
    [op |-> op, h |-> h, code |-> code, sku |-> sku, tt |-> tt, err |-> err,
     body |-> body, url |-> url, obj |-> obj]

\* index.reload()
IndexReloadOp ==
    \E f \in Fetched(IndexDocs) :
      /\ fetches < MaxFetches
      /\ fetches' = fetches + 1
      /\ idx' = IndexReload(idx, f, fetches')
      /\ last' = Last("index.reload", 0, "", "", "", f.outcome, f.body,
                      idx.url, <<>>)
      /\ UNCHANGED <<offers, first>>
      /\ UNCHANGED termVars

\* index.offer(offer_code): an unknown code raises before any fetch;
\* otherwise AWSOffer(url) fetches and the caller keeps the object built
IndexOfferOp ==
    \E code \in Codes :
      LET u == OfferUrl(idx, code) IN
      IF u.err # "ok"
      THEN /\ last' = Last("index.offer", 0, code, "", "", u.err, <<>>, <<>>, <<>>)
           /\ UNCHANGED <<idx, offers, fetches, first>>
           /\ UNCHANGED termVars
      ELSE \E f \in Fetched(OfferDocs) :
             \E h \in Handles :
               LET Returned(r) ==
                     /\ offers' = [offers EXCEPT ![h] = r.obj]
                     /\ last' = Last("index.offer", h, code, "", "", r.err,
                                     f.body, u.url, <<>>)
               IN
               /\ fetches < MaxFetches
               /\ offers[h] = <<>>
               /\ \A g \in Handles : g < h => offers[g] # <<>>
               /\ fetches' = fetches + 1
               /\ Returned(OfferInit(u.url, f, fetches + 1))
               /\ first' = [first EXCEPT ![h] = {}]
               /\ idx' = idx
               /\ UNCHANGED termVars

\* offer.reload() on a held object
OfferReloadOp ==
    \E h \in Handles : \E f \in Fetched(OfferDocs) :
      /\ offers[h] # <<>>
      /\ fetches < MaxFetches
      /\ fetches' = fetches + 1
      /\ offers' = OfferReload(offers, h, f, fetches')
      /\ first' = [first EXCEPT ![h] = IF f.outcome = "ok" THEN {} ELSE @]
      /\ last' = Last("offer.reload", h, "", "", "", f.outcome, f.body,
                      offers[h][1].url, <<>>)
      /\ idx' = idx
      /\ UNCHANGED termVars

\* The record of first results after a call of product(sku, term_type)
\* that returned r: the first successful call since the last load is
\* recorded, later calls with the same arguments are noted as repeats.
FirstAfter(fs, sku, tt, r) ==
    IF \E e \in fs : e.sku = sku /\ e.tt = tt
    THEN {IF e.sku = sku /\ e.tt = tt THEN [e EXCEPT !.repeated = TRUE] ELSE e :
             e \in fs}
    ELSE IF r.err = "ok"
    THEN fs \cup {[sku |-> sku, tt |-> tt, obj |-> r.obj, repeated |-> FALSE]}
    ELSE fs

\* offer.product(sku, term_type) on a held object
OfferProductOp ==
    \E h \in Handles : \E a \in ProductArgs :
      LET sku == a[1]
          tt == a[2]
      IN
      /\ offers[h] # <<>>
      /\ LET Returned(r) ==
               /\ offers' = [offers EXCEPT ![h] = <<[@[1] EXCEPT !.offr = r.offr]>>]
               /\ first' = [first EXCEPT ![h] = FirstAfter(@, sku, tt, r)]
               /\ last' = Last("offer.product", h, "", sku, tt, r.err, <<>>, <<>>,
                               r.obj)
         IN Returned(OfferProduct(offers[h][1].offr, sku, tt))
      /\ UNCHANGED <<idx, fetches>>
      /\ UNCHANGED termVars

----------------------------------------------------------------------------
(* Specifications *)

\* the client after AWSOffersIndex() has returned
ClientInit ==
    /\ \E d \in IndexDocs :
         /\ idx = [url |-> IdxUrl, doc |-> d, accessed |-> 1]
         /\ last = Last("index", 0, "", "", "", "ok", <<d>>, IdxUrl, <<>>)
    /\ offers = [h \in Handles |-> <<>>]
    /\ fetches = 1
    /\ first = [h \in Handles |-> {}]

Init ==
    /\ ClientInit
    /\ raw = RawTermOf(<<"1", "Z">>, <<>>)
    /\ pt = <<>>
    /\ res = NoRes

Next == IndexReloadOp \/ IndexOfferOp \/ OfferReloadOp \/ OfferProductOp

Spec == Init /\ [][Next]_vars

\* the term-level operations applied to every raw term of RawTerms
InitTerm ==
    /\ TermInit
    /\ idx = [url |-> IdxUrl, doc |-> IndexDoc1, accessed |-> 1]
    /\ last = Last("index", 0, "", "", "", "ok", <<IndexDoc1>>, IdxUrl, <<>>)
    /\ offers = [h \in Handles |-> <<>>]
    /\ fetches = 1
    /\ first = [h \in Handles |-> {}]

SpecTerm == InitTerm /\ [][TermNext]_vars

----------------------------------------------------------------------------
(* Properties of the term-level operations (checked under SpecTerm) *)

\* the orders in which the price dimensions pd ascend by begin-of-range
AscendingOrders(pd) ==
    {ord \in [1..Len(pd) -> 1..Len(pd)] :
        /\ \A i, j \in 1..Len(pd) : i # j => ord[i] # ord[j]
        /\ \A i, j \in 1..Len(pd) :
             i < j => pd[ord[i]].beginRange.v <= pd[ord[j]].beginRange.v}

\* price * (end - begin) summed over the first k tiers of ord
RECURSIVE FullTiers(_, _, _)
FullTiers(ord, pd, k) ==
    IF k = 0 THEN 0
    ELSE FullTiers(ord, pd, k - 1)
         + pd[ord[k]].pricePerUnit["USD"].v
             * (pd[ord[k]].endRange.v - pd[ord[k]].beginRange.v)

\* the tiered cumulative reference: the tiers before the first one whose
\* end-of-range is >= amount are consumed in full, that one in part
RefPrice(ord, pd, amount) ==
    LET stop == {i \in 1..Len(ord) : pd[ord[i]].endRange.v >= amount} IN
    IF stop = {} THEN FullTiers(ord, pd, Len(ord))
    ELSE LET k == CHOOSE i \in stop : \A j \in stop : i <= j IN
         FullTiers(ord, pd, k - 1)
         + pd[ord[k]].pricePerUnit["USD"].v * (amount - pd[ord[k]].beginRange.v)

\* the term of the example: tiers (0, 10, price 2) and (10, inf, price 1)
IsExampleTerm(pd) ==
    /\ Len(pd) = 2
    /\ {<<pd[i].beginRange.v, pd[i].endRange.v, pd[i].pricePerUnit["USD"].v>> :
          i \in 1..2} = {<<0, 10, 2>>, <<10, INF, 1>>}

\* C1: get_price(amount) equals the tiered cumulative reference walked in
\* an ascending begin-of-range order of the term's tiers, is 0 for a term
\* without tiers, and is 10, 20, 25 for the amounts 5, 10, 15 on the
\* tiers (0, 10, price 2), (10, inf, price 1).
C1_GetPriceIsTieredCumulative ==
    res.op = "get_price" =>
      LET pd == raw.priceDimensions IN
      /\ \E ord \in AscendingOrders(pd) : res.val = RefPrice(ord, pd, res.arg)
      /\ (Len(pd) = 0 => res.val = 0)
      /\ (IsExampleTerm(pd) =>
            /\ (res.arg = 5 => res.val = 10)
            /\ (res.arg = 10 => res.val = 20)
            /\ (res.arg = 15 => res.val = 25))

C1_Witness ==
    /\ res.op = "get_price"
    /\ IsExampleTerm(raw.priceDimensions)
    /\ res.arg = 15
    /\ res.val = 25

\* C2: a constructed AWSProductPricing has exactly one tier per price
\* dimension of its raw term, its tier list ascends by begin-of-range, and
\* price dimensions that arrive in ascending order keep their order.
C2_TiersSortedOnePerDimension ==
    pt # <<>> =>
      LET ts == pt[1].tiers
          pd == raw.priceDimensions
      IN
      /\ Len(ts) = Len(pd)
      /\ \A k \in 1..Len(pd) : Cardinality({i \in 1..Len(ts) : ts[i] = k}) = 1
      /\ \A i, j \in 1..Len(ts) :
           i < j => pd[ts[i]].beginRange.v <= pd[ts[j]].beginRange.v
      /\ ((\A i, j \in 1..Len(pd) :
             i < j => pd[i].beginRange.v <= pd[j].beginRange.v)
          => ts = [i \in 1..Len(pd) |-> i])

C2_Witness ==
    /\ pt # <<>>
    /\ res.op = "pricing"
    /\ Len(raw.priceDimensions) = 2
    /\ raw.priceDimensions[1].beginRange.v > raw.priceDimensions[2].beginRange.v
    /\ pt[1].tiers = <<2, 1>>

\* C6: price_unit raises the more-than-one-unit error when two tiers of
\* the term carry different units, and returns the unit when the term has
\* tiers and they all carry the same one.
C6_PriceUnit ==
    res.op = "price_unit" =>
      LET ts == pt[1].tiers
          pd == raw.priceDimensions
      IN
      /\ ((\E i, j \in 1..Len(ts) : pd[ts[i]].unit # pd[ts[j]].unit)
            => res.err = "MoreThanOneUnit")
      /\ ((Len(ts) > 0 /\ \A i \in 1..Len(ts) : pd[ts[i]].unit = pd[ts[1]].unit)
            => res.err = "ok" /\ res.unit = pd[ts[1]].unit)

C6_Witness ==
    /\ res.op = "price_unit"
    /\ Len(pt[1].tiers) = 2
    /\ raw.priceDimensions[1].unit = raw.priceDimensions[2].unit
    /\ res.err = "ok"
    /\ res.unit = raw.priceDimensions[1].unit

\* C9: constructing a price tier from a record whose pricePerUnit has no
\* USD key raises the no-USD-price error and yields no tier, whatever the
\* record's ranges and other currencies are.
C9_NoUSDPriceFails ==
    (/\ res.op = "tier"
     /\ raw.priceDimensions[res.arg].isdict
     /\ "USD" \notin DOMAIN raw.priceDimensions[res.arg].pricePerUnit)
    => res.err = "NoUSD" /\ res.obj = <<>>

C9_Witness ==
    /\ res.op = "tier"
    /\ res.err = "NoUSD"
    /\ "EUR" \in DOMAIN raw.priceDimensions[res.arg].pricePerUnit
    /\ Float(raw.priceDimensions[res.arg].beginRange).err # "ok"

----------------------------------------------------------------------------
(* Properties of the client operations (checked under Spec) *)

\* C3: after AWSOffer(url) or a successful reload(), the offer's document,
\* accessed timestamp and publication timestamp are those of the document
\* just fetched and its URL is the one it had.
C3_RefreshReplacesDocumentAndTimestamps ==
    (last.op \in {"index.offer", "offer.reload"} /\ last.err = "ok") =>
      LET o == offers[last.h][1]
          d == ParseDate(last.body[1].publicationDate)
      IN
      /\ o.offr = last.body[1]
      /\ o.accessed = fetches
      /\ o.url = last.url
      /\ (d.err = "ok" => o.pubdate = d.v)

\* C4: offer(code) for a code absent from the index's offers mapping raises
\* the unknown-offer-code error, builds no AWSOffer, fetches nothing and
\* leaves the index as it was.
C4_UnknownOfferCode ==
    [][(last'.op = "index.offer" /\ last'.code \notin DOMAIN idx.doc.offers)
        => /\ last'.err = "UnknownOfferCode"
           /\ offers' = offers
           /\ fetches' = fetches
           /\ idx' = idx]_vars

C4_Witness ==
    /\ last.op = "index.offer"
    /\ last.code \notin DOMAIN idx.doc.offers
    /\ last.err = "UnknownOfferCode"

\* C5: product(sku, term_type) on an offer whose product record under sku
\* embeds another SKU raises the SKU-mismatch error, also when term_type
\* is absent from the terms, and builds and normalises nothing.
C5_SkuMismatchFirst ==
    [][(/\ last'.op = "offer.product"
        /\ last'.sku \in DOMAIN offers[last'.h][1].offr.products
        /\ offers[last'.h][1].offr.products[last'.sku].sku # last'.sku)
        => /\ last'.err = "SKUMismatch"
           /\ last'.obj = <<>>
           /\ offers' = offers]_vars

C5_Witness ==
    /\ last.op = "offer.product"
    /\ last.err = "SKUMismatch"
    /\ last.tt \notin DOMAIN offers[last.h][1].offr.terms

\* C7: index.reload() leaves every held AWSOffer as it was, and
\* offer.reload() leaves the index and every other AWSOffer as they were.
C7_ReloadTouchesOnlyItsEntity ==
    [][/\ (last'.op = "index.reload" /\ fetches' # fetches) => offers' = offers
       /\ (last'.op = "offer.reload" /\ fetches' # fetches) =>
            /\ idx' = idx
            /\ \A g \in Handles : g # last'.h => offers'[g] = offers[g]]_vars

C7_Witness ==
    /\ last.op = "offer.reload"
    /\ last.err = "ok"
    /\ \E g \in Handles :
         /\ g # last.h
         /\ offers[g] # <<>>
         /\ offers[g][1].accessed < offers[last.h][1].accessed

\* C8: index.reload() whose fetch or JSON parse fails leaves the index's
\* document and accessed timestamp as they were; a successful one replaces
\* both in the same step; and nothing else ever changes either of them.
C8_IndexReloadAtomic ==
    [][/\ (last'.op = "index.reload" /\ fetches' # fetches) =>
            IF last'.err = "ok"
            THEN /\ idx'.doc = last'.body[1]
                 /\ idx'.accessed = fetches'
                 /\ idx'.accessed > idx.accessed
            ELSE idx' = idx
       /\ (idx'.doc # idx.doc \/ idx'.accessed # idx.accessed) =>
            /\ last'.op = "index.reload"
            /\ last'.err = "ok"
            /\ idx'.accessed # idx.accessed]_vars

C8_Witness ==
    /\ last.op = "index.reload"
    /\ last.err \in {"URLError", "JSONDecodeError"}
    /\ idx.accessed < fetches

\* C10: a call of product(sku, term_type) that follows a successful call
\* with the same arguments on the same offer, with no reload in between,
\* succeeds and returns a product with the same terms, tier order and
\* numeric price, begin-of-range and end-of-range.
C10_ProductRepeatable ==
    last.op = "offer.product" =>
      \A e \in first[last.h] :
        (e.sku = last.sku /\ e.tt = last.tt)
          => last.err = "ok" /\ last.obj = e.obj

C10_Witness ==
    /\ last.op = "offer.product"
    /\ last.err = "ok"
    /\ \E e \in first[last.h] :
         /\ e.sku = last.sku /\ e.tt = last.tt
         /\ e.repeated
         /\ last.obj = e.obj
         /\ Len(e.obj[1].pricing) = 2
         /\ Len(e.obj[1].pricing[1].tiers) = 2
=============================================================================
